---- MODULE Spec2Model ----
(***************************************************************************)
(* Point-in-circles simulation (Angular 9 strategy-pattern demo).          *)
(*                                                                         *)
(* The module models                                                       *)
(*   - the pure geometry helpers TSMT$PointInCircle and TSMT$getQuadrant,  *)
(*   - the canvas strategy (PicCanvasDirective): circles placed once, a    *)
(*     four-bucket quad map, a cached candidate id list, next(),           *)
(*   - the SVG strategy (PicSvgDirective): point and circles move, every   *)
(*     circle is tested in next(),                                         *)
(*   - the point class TSMT$Point with its cached norm and its sanitising  *)
(*     setters,                                                            *)
(*   - the circle geometry library: circle-circle intersection, tangents   *)
(*     from a point, gaps between nested circles, chord parameters and the *)
(*     circumcircle radius, in exact arithmetic on integer inputs.         *)
(*                                                                         *)
(* Coordinates are integers: the point starts at rounded half-dimensions   *)
(* and every walk adds or subtracts an integer, circles are placed on      *)
(* integers.  The only non-integer quantities of the code are the          *)
(* rectangle centre coordinates 0.5*(a+b); comparisons against them are    *)
(* written on doubled values (2*p >= a+b), which is exact.                 *)
(***************************************************************************)
EXTENDS Integers, Sequences, FiniteSets, TLC

VARIABLES
    algorithm,   \* ALGORITHM_ID: 1 = canvas strategy, 2 = SVG strategy; 0 = pure-function harness,
                 \* 3 = point object
    width,       \* _width  (clientWidth of the container)
    height,      \* _height (clientHeight of the container)
    circleRefs,  \* _circleRefs: index -> [x, y, radius, id]
    quad,        \* _quad1.._quad4: quadrant -> set of circle ids (the keys of the record)
    px, py,      \* _px, _py: the test point
    curQuad,     \* _curQuad
    prevQuad,    \* _prevQuad
    check,       \* _check: cached candidate id list
    checkSet,    \* FALSE while _check is still undefined
    identified,  \* _identified: ids of the circles pushed in the last next(), in push order
    identifiedDO, \* _identifiedDO: the display objects pushed with them, by the id of their circle
    emitted,     \* ids emitted on onIntersect during the last next(), in order
    tested,      \* ids TSMT$PointInCircle was called on during the last next(), in order
    reassigned,  \* TRUE iff the last next() executed the assignment to _check
    dirty,       \* TRUE iff a bucket update ran after _check was last assigned
    last,        \* the operation that produced the state
    call,        \* pure-function harness: the pending call
    ret,         \* pure-function harness: <<>> or <<result>>
    pt,          \* a TSMT$Point object: [x, y, invalidated, norm] (_x, _y, _invalidated, _norm)
    app          \* the AppComponent and its timer subscription

vars == <<algorithm, width, height, circleRefs, quad, px, py, curQuad, prevQuad,
          check, checkSet, identified, identifiedDO, emitted, tested, reassigned, dirty, last,
          call, ret, pt, app>>

simVars == <<algorithm, width, height, circleRefs, quad, px, py, curQuad, prevQuad,
             check, checkSet, identified, identifiedDO, emitted, tested, reassigned, dirty,
             last>>

\* the variables of the pure-function harness, of the point object and of the application
fnVars == <<call, ret, pt, app>>

(***************************************************************************)
(* Bounds.  The simulation parameters of CircleService are scaled down:    *)
(* NUM_CIRCLES, MIN_RADIUS, LOW_RADIUS and LOW_R are bounds of the model,  *)
(* the upper ends of the three ranges follow from them.  The container is  *)
(* wide enough for a circle to miss a quadrant (width, height >            *)
(* 2*(MAX_RADIUS + MIN_RADIUS)), and has one odd and one even dimension:   *)
(* the horizontal dividing line passes through integer points, the         *)
(* vertical one does not.  A moving circle is followed while its centre    *)
(* stays in the region circles are placed in.                              *)
(***************************************************************************)
NUM_CIRCLES     == 2      \* CircleService.NUM_CIRCLES (100 in the source)
MIN_RADIUS      == 1      \* CircleService.MIN_RADIUS  (8 in the source)
LOW_RADIUS      == 1      \* CircleService.LOW_RADIUS  (3 in the source)
LOW_R           == 4      \* CircleService.LOW_R       (5 in the source)
ContainerWidth  == 7      \* clientWidth of the container element
ContainerHeight == 8      \* clientHeight of the container element
Margin          == 1      \* how far outside the container the point is followed
FnMax           == 4      \* pure-function harness: coordinates range over -1..FnMax
FnMaxR          == 3      \* pure-function harness: radii range over -2..FnMaxR

MAX_RADIUS  == MIN_RADIUS + 1     \* CircleService.MAX_RADIUS  (20 in the source)
HIGH_RADIUS == LOW_RADIUS + 1     \* CircleService.HIGH_RADIUS (15 in the source)
HIGH_R      == LOW_R + 1          \* CircleService.HIGH_R      (10 in the source)

(***************************************************************************)
(* Circle ids: id = i.toString(), and +id converts back to the index.      *)
(***************************************************************************)
Digits == <<"0", "1", "2", "3", "4", "5", "6", "7", "8", "9">>

toString(i) == IF i < 10 THEN Digits[i + 1] ELSE Digits[(i \div 10) + 1] \o Digits[(i % 10) + 1]

Indices == 0..(NUM_CIRCLES - 1)

Ids == {toString(i) : i \in Indices}

\* +id, tabulated over the ids in use
toNumberTable == [id \in Ids |-> CHOOSE i \in Indices : toString(i) = id]

toNumber(id) == toNumberTable[id]

\* variant of PointInCircle: strict interior in the final comparison
PointInCircleStrict(ppx, ppy, xc, yc, r) ==
    IF ppy > yc + r \/ ppy < yc - r THEN FALSE
    ELSE IF ppx > xc + r \/ ppx < xc - r THEN FALSE
    ELSE LET dx == ppx - xc
             dy == ppy - yc
         IN  dx * dx + dy * dy < r * r

\* variant of PointInCircle: the distance comparison alone, without the bounding-box guards
PointInCircleNoBox(ppx, ppy, xc, yc, r) ==
    LET dx == ppx - xc
        dy == ppy - yc
    IN  dx * dx + dy * dy <= r * r

\* variant of PointInCircle: the bounding-box guards also reject the box edges
PointInCircleNoEdge(ppx, ppy, xc, yc, r) ==
    IF ppy >= yc + r \/ ppy <= yc - r THEN FALSE
    ELSE IF ppx >= xc + r \/ ppx <= xc - r THEN FALSE
    ELSE LET dx == ppx - xc
             dy == ppy - yc
         IN  dx * dx + dy * dy <= r * r

(***************************************************************************)
(* TSMT$PointInCircle                                                      *)
(***************************************************************************)
PointInCircle(ppx, ppy, xc, yc, r) ==
    IF ppy > yc + r \/ ppy < yc - r THEN FALSE
    ELSE IF ppx > xc + r \/ ppx < xc - r THEN FALSE
    ELSE LET dx == ppx - xc
             dy == ppy - yc
         IN  dx * dx + dy * dy <= r * r

\* variant of getQuadrant: the test for quadrant 4 comes before the one for 3
getQuadrantSwapped(ppx, ppy, left, top, right, bottom) ==
    LET xc2   == left + right
        yc2   == bottom + top
        yDown == top <= bottom
        xgt   == 2 * ppx >= xc2 /\ ppx <= right
        xlt   == 2 * ppx <= xc2 /\ ppx >= left
        yhigh == IF yDown THEN 2 * ppy <= yc2 /\ ppy >= top
                          ELSE 2 * ppy >= yc2 /\ ppy <= top
        ylow  == IF yDown THEN 2 * ppy >= yc2 /\ ppy <= bottom
                          ELSE 2 * ppy <= yc2 /\ ppy >= bottom
    IN  IF xgt /\ yhigh THEN 1
        ELSE IF xgt /\ ylow THEN 2
        ELSE IF xlt /\ yhigh THEN 4
        ELSE IF xlt /\ ylow THEN 3
        ELSE 0

\* variant of getQuadrant: the right edge of the region is excluded
getQuadrantOpen(ppx, ppy, left, top, right, bottom) ==
    LET xc2   == left + right
        yc2   == bottom + top
        yDown == top <= bottom
        xgt   == 2 * ppx >= xc2 /\ ppx < right
        xlt   == 2 * ppx <= xc2 /\ ppx >= left
        yhigh == IF yDown THEN 2 * ppy <= yc2 /\ ppy >= top
                          ELSE 2 * ppy >= yc2 /\ ppy <= top
        ylow  == IF yDown THEN 2 * ppy >= yc2 /\ ppy <= bottom
                          ELSE 2 * ppy <= yc2 /\ ppy >= bottom
    IN  IF xgt /\ yhigh THEN 1
        ELSE IF xgt /\ ylow THEN 2
        ELSE IF xlt /\ ylow THEN 3
        ELSE IF xlt /\ yhigh THEN 4
        ELSE 0

(***************************************************************************)
(* TSMT$getQuadrant.  xc = 0.5*(left+right), yc = 0.5*(bottom+top); the    *)
(* comparisons p >= xc, p <= xc are written 2*p >= left+right, ...         *)
(***************************************************************************)
getQuadrant(ppx, ppy, left, top, right, bottom) ==
    LET xc2   == left + right
        yc2   == bottom + top
        yDown == top <= bottom
        xgt   == 2 * ppx >= xc2 /\ ppx <= right
        xlt   == 2 * ppx <= xc2 /\ ppx >= left
        yhigh == IF yDown THEN 2 * ppy <= yc2 /\ ppy >= top
                          ELSE 2 * ppy >= yc2 /\ ppy <= top
        ylow  == IF yDown THEN 2 * ppy >= yc2 /\ ppy <= bottom
                          ELSE 2 * ppy <= yc2 /\ ppy >= bottom
    IN  IF xgt /\ yhigh THEN 1
        ELSE IF xgt /\ ylow THEN 2
        ELSE IF xlt /\ ylow THEN 3
        ELSE IF xlt /\ yhigh THEN 4
        ELSE 0

(***************************************************************************)
(* pointRandomWalk: the set of results the two Math.random() draws allow.  *)
(* r = round(low - 0.499 + random*(high - low + 0.998)) is any integer in  *)
(* low..high; t picks one of the four axis moves.                          *)
(***************************************************************************)
pointRandomWalk(x, y, low, high) ==
    UNION {{<<x + r, y>>, <<x - r, y>>, <<x, y + r>>, <<x, y - r>>} : r \in low..high}

(***************************************************************************)
(* Math.round(0.5*n) for n >= 0 (halves round up).                         *)
(***************************************************************************)
RoundHalf(n) == (n + 1) \div 2

(***************************************************************************)
(* RandomIntInRange.generateInRange(min, max): an integer in [min, max].   *)
(* __initCircles passes max = (dim - MAX_RADIUS) + 0.499, so the integers  *)
(* it can return are min..(dim - MAX_RADIUS).                              *)
(***************************************************************************)
generateInRange(min, maxFloor) == min..maxFloor

\* the two extreme values of a non-empty range
ends(S) == {v \in S : (\A u \in S : u >= v) \/ (\A u \in S : u <= v)}

\* The circles __initCircles creates in a width x height container.  Of the
\* centres it can draw, the ones tried are the extreme ones (nearest to the
\* four corners); every radius is tried.
Placements(w, h) ==
    {[x |-> x, y |-> y, radius |-> r] :
        x \in ends(generateInRange(MAX_RADIUS, w - MAX_RADIUS)),
        y \in ends(generateInRange(MAX_RADIUS, h - MAX_RADIUS)),
        r \in generateInRange(MIN_RADIUS, MAX_RADIUS)}

(***************************************************************************)
(* TSMT$Circle.inQuadrant(q) after setBounds(left, top, right, bottom):    *)
(* the circle's bounding square (centre +/- radius) overlaps the closed    *)
(* sub-rectangle of quadrant q (numbered as getQuadrant numbers them).     *)
(***************************************************************************)
inQuadrant(c, q, left, top, right, bottom) ==
    LET xc2   == left + right
        yc2   == bottom + top
        yDown == top <= bottom
        xgt   == 2 * (c.x + c.radius) >= xc2 /\ c.x - c.radius <= right
        xlt   == 2 * (c.x - c.radius) <= xc2 /\ c.x + c.radius >= left
        yhigh == IF yDown THEN 2 * (c.y - c.radius) <= yc2 /\ c.y + c.radius >= top
                          ELSE 2 * (c.y + c.radius) >= yc2 /\ c.y - c.radius <= top
        ylow  == IF yDown THEN 2 * (c.y + c.radius) >= yc2 /\ c.y - c.radius <= bottom
                          ELSE 2 * (c.y - c.radius) <= yc2 /\ c.y + c.radius >= bottom
    IN  CASE q = 1 -> xgt /\ yhigh
          [] q = 2 -> xgt /\ ylow
          [] q = 3 -> xlt /\ ylow
          [] q = 4 -> xlt /\ yhigh
          [] OTHER -> FALSE

\* variant of assign: the four tests are chained with else, only the first hit is recorded
assignElseIf(qm, c, id, w, h) ==
    [q \in 1..4 |->
        IF inQuadrant(c, q, 0, 0, w, h) /\ (\A k \in 1..(q - 1) : ~inQuadrant(c, k, 0, 0, w, h))
        THEN qm[q] \cup {id} ELSE qm[q]]

\* variant of assign: the test for quadrant 3 guards the update of _quad2
assignSlip(qm, c, id, w, h) ==
    [q \in 1..4 |->
        IF inQuadrant(c, IF q = 2 THEN 3 ELSE q, 0, 0, w, h) THEN qm[q] \cup {id} ELSE qm[q]]

\* variant of assign: the key is toggled instead of set
assignToggle(qm, c, id, w, h) ==
    [q \in 1..4 |->
        IF inQuadrant(c, q, 0, 0, w, h)
        THEN (IF id \in qm[q] THEN qm[q] \ {id} ELSE qm[q] \cup {id})
        ELSE qm[q]]

(***************************************************************************)
(* The bucket update of __initCircles for one circle: c.setBounds(0, 0,    *)
(* _width, _height), then for q = 1..4: if (c.inQuadrant(q)) the key c.id  *)
(* is set in _quad<q>.  Nothing is ever deleted from a bucket.             *)
(***************************************************************************)
assign(qm, c, id, w, h) ==
    [q \in 1..4 |-> IF inQuadrant(c, q, 0, 0, w, h) THEN qm[q] \cup {id} ELSE qm[q]]

EmptyQuad == [q \in 1..4 |-> {}]

RECURSIVE initQuad(_, _, _, _)
\* the loop of __initCircles over i = n, n+1, ..., NUM_CIRCLES-1
initQuad(n, refs, w, h) ==
    IF n >= NUM_CIRCLES THEN EmptyQuad
    ELSE assign(initQuad(n + 1, refs, w, h), refs[n], toString(n), w, h)

(***************************************************************************)
(* Object.keys of a bucket: integer-like keys come in ascending numeric    *)
(* order.                                                                  *)
(***************************************************************************)
keysTable ==
    [S \in SUBSET Ids |->
        [k \in 1..Cardinality(S) |->
            CHOOSE id \in S : Cardinality({j \in S : toNumber(j) < toNumber(id)}) = k - 1]]

keys(S) == keysTable[S]

\* variant of quadInRange: upper limit off by one
quadInRangeLow(q) == q > 0 /\ q < 4

\* line 188: this._curQuad > 0 && this._curQuad < 5
quadInRange(q) == q > 0 /\ q < 5

\* variant of quadChanged: a change is seen only once a quadrant has been recorded
quadChangedRecorded(q, prev) == q # prev /\ prev > 0

\* variant of quadChanged: only a higher quadrant number counts as a change
quadChangedUp(q, prev) == q > prev

\* variant of quadChanged: a change is seen only while no quadrant has been recorded yet
quadChangedFirst(q, prev) == prev = 0 - 1

\* line 191: this._curQuad != this._prevQuad
quadChanged(q, prev) == q # prev

\* variant of scanList: the forEach over _check runs after the if-block
scanListAlways(q, chk) == chk

\* lines 188, 197: the forEach over _check runs inside the if-block only
scanList(q, chk) == IF quadInRange(q) THEN chk ELSE <<>>

\* the intersection test of both directives on circle number i
hit(x, y, refs, i) == PointInCircle(x, y, refs[i].x, refs[i].y, refs[i].radius)

\* the point is followed while it is at most Margin outside the container
inView(p, w, h) == p[1] \in (0 - Margin)..(w + Margin) /\ p[2] \in (0 - Margin)..(h + Margin)

\* a circle centre is followed while it is inside the region it can be placed in
centreInView(c, w, h) ==
    /\ c.x \in generateInRange(MAX_RADIUS, w - MAX_RADIUS)
    /\ c.y \in generateInRange(MAX_RADIUS, h - MAX_RADIUS)

\* Array.pop: the list without its last element
pop(list) == IF Len(list) = 0 THEN list ELSE SubSeq(list, 1, Len(list) - 1)

\* variant of redraw: one pair is popped, not all of them
redrawOne(ids, dos) ==
    IF Len(dos) > 0 THEN [identified |-> pop(ids), identifiedDO |-> pop(dos)]
    ELSE [identified |-> ids, identifiedDO |-> dos]

RECURSIVE redraw(_, _)
\* canvas lines 167-173, SVG lines 339-345: both lists are popped while _identifiedDO is not
\* empty; the result is the two lists after the loop
redraw(ids, dos) ==
    IF Len(dos) > 0 THEN redraw(pop(ids), pop(dos))
    ELSE [identified |-> ids, identifiedDO |-> dos]

(***************************************************************************)
(* Construction + ngOnInit of the directive of the selected strategy.      *)
(***************************************************************************)
InitSim(alg) ==
    /\ algorithm = alg
    /\ width = ContainerWidth
    /\ height = ContainerHeight
    /\ circleRefs \in [Indices -> Placements(width, height)]
    /\ quad = IF alg = 1 THEN initQuad(0, circleRefs, width, height) ELSE EmptyQuad
    /\ px = RoundHalf(width)
    /\ py = RoundHalf(height)
    /\ curQuad = 0
    /\ prevQuad = -1
    /\ check = <<>>
    /\ checkSet = FALSE
    /\ identified = <<>>
    /\ identifiedDO = <<>>
    /\ emitted = <<>>
    /\ tested = <<>>
    /\ reassigned = FALSE
    /\ dirty = FALSE
    /\ last = "init"
    /\ call = <<>>
    /\ ret = <<>>
    /\ pt = <<>>
    /\ app = <<>>

Init == InitSim(1) \/ InitSim(2)

(***************************************************************************)
(* PicCanvasDirective.next                                                 *)
(***************************************************************************)
\* lines 161-215: what next() assigns
nextCanvas ==
    /\ algorithm = 1
    /\ \E p \in pointRandomWalk(px, py, LOW_RADIUS, HIGH_RADIUS) :
         /\ inView(p, width, height)
         /\ LET q       == getQuadrant(p[1], p[2], 0, 0, width, height)
                refresh == quadInRange(q) /\ quadChanged(q, prevQuad)
                chk     == IF refresh THEN keys(quad[q]) ELSE check
                scan    == scanList(q, chk)
                hits    == SelectSeq(scan, LAMBDA id : hit(p[1], p[2], circleRefs, toNumber(id)))
            IN  /\ px' = p[1]
                /\ py' = p[2]
                /\ curQuad' = q
                /\ prevQuad' = IF refresh THEN q ELSE prevQuad
                /\ check' = chk
                /\ checkSet' = (checkSet \/ refresh)
                /\ reassigned' = refresh
                /\ dirty' = (dirty /\ ~refresh)
                /\ tested' = scan
                /\ identified' = redraw(identified, identifiedDO).identified \o hits
                /\ identifiedDO' = redraw(identified, identifiedDO).identifiedDO \o hits
                /\ emitted' = hits
    /\ last' = "next"

\* variant of CanvasNext: the step also shifts circle 0 by one unit
CanvasNextShifting ==
    /\ nextCanvas
    /\ circleRefs' = [circleRefs EXCEPT ![0] = [@ EXCEPT !.x = @ + 1]]
    /\ UNCHANGED <<algorithm, width, height, quad, fnVars>>

\* PicCanvasDirective.next: the circles, the buckets and the container are left alone
CanvasNext ==
    /\ nextCanvas
    /\ UNCHANGED <<algorithm, width, height, circleRefs, quad, fnVars>>

(***************************************************************************)
(* PicSvgDirective.next.  The point is walked from (_px, _px); every       *)
(* circle moves or not (Math.random() <= 0.2), by pointRandomWalk with     *)
(* LOW_R..HIGH_R; then every circle i = 0..NUM_CIRCLES-1 is tested.        *)
(***************************************************************************)
circleMoves(c) ==
    {c} \cup {[c EXCEPT !.x = m[1], !.y = m[2]] : m \in pointRandomWalk(c.x, c.y, LOW_R, HIGH_R)}

followedMoves(c, w, h) == {m \in circleMoves(c) : centreInView(m, w, h)}

\* variant of allIds: the loop runs from the last circle down
allIdsDown == [k \in 1..NUM_CIRCLES |-> toString(NUM_CIRCLES - k)]

\* lines 378-380: the test loop, i = 0 .. NUM_CIRCLES - 1
allIds == [k \in 1..NUM_CIRCLES |-> toString(k - 1)]

RECURSIVE moveLists(_, _, _, _)
\* the outcomes of the circle-moving loop for the circles 0..n-1, as lists
moveLists(n, refs, w, h) ==
    IF n = 0 THEN {<<>>}
    ELSE {Append(l, m) : l \in moveLists(n - 1, refs, w, h), m \in followedMoves(refs[n - 1], w, h)}

SvgNext ==
    /\ algorithm = 2
    /\ \E l \in moveLists(NUM_CIRCLES, circleRefs, width, height) :
         \E p \in pointRandomWalk(px, px, LOW_RADIUS, HIGH_RADIUS) :
            /\ inView(p, width, height)
            /\ LET refs == [i \in Indices |-> l[i + 1]]
                   hits == SelectSeq(allIds, LAMBDA id : hit(p[1], p[2], refs, toNumber(id)))
               IN  /\ px' = p[1]
                   /\ py' = p[2]
                   /\ circleRefs' = refs
                   /\ tested' = allIds
                   /\ identified' = redraw(identified, identifiedDO).identified \o hits
                   /\ identifiedDO' = redraw(identified, identifiedDO).identifiedDO \o hits
                   /\ emitted' = hits
    /\ last' = "next"
    /\ UNCHANGED <<algorithm, width, height, quad, curQuad, prevQuad, check, checkSet,
                   reassigned, dirty, fnVars>>

Next == CanvasNext \/ SvgNext

Spec == Init /\ [][Next]_vars

(***************************************************************************)
(* The driver of the quad map: a circle of the canvas strategy changes     *)
(* position and the bucket update is run again for it before the next      *)
(* step.  The update is the one of __initCircles (assign).                 *)
(***************************************************************************)
Movable == {0}     \* the circles the driver moves

DriverMove ==
    /\ algorithm = 1
    /\ \E i \in Movable :
         \E m \in followedMoves(circleRefs[i], width, height) \ {circleRefs[i]} :
            /\ circleRefs' = [circleRefs EXCEPT ![i] = m]
            /\ quad' = assign(quad, m, toString(i), width, height)
    /\ dirty' = TRUE
    /\ last' = "move"
    /\ UNCHANGED <<algorithm, width, height, px, py, curQuad, prevQuad, check, checkSet,
                   identified, identifiedDO, emitted, tested, reassigned, fnVars>>

\* the driver is followed from the placements in which every circle has the minimum radius
InitDriver == InitSim(1) /\ \A i \in Indices : circleRefs[i].radius = MIN_RADIUS

NextDriver == CanvasNext \/ DriverMove

SpecDriver == InitDriver /\ [][NextDriver]_vars

(***************************************************************************)
(* JavaScript values.  A value is a record [t, k, n, s]: t is the result   *)
(* of typeof; a number has k = "fin" (the integer n), "nan", or "inf"      *)
(* (n = 1 for Infinity, -1 for -Infinity); a string has its text in s; a   *)
(* boolean has n = 1 for true and 0 for false.                             *)
(***************************************************************************)
Num(i)   == [t |-> "number", k |-> "fin", n |-> i, s |-> ""]
NaN      == [t |-> "number", k |-> "nan", n |-> 0, s |-> ""]
Inf(sgn) == [t |-> "number", k |-> "inf", n |-> sgn, s |-> ""]
Str(txt) == [t |-> "string", k |-> "", n |-> 0, s |-> txt]
Bool(b)  == [t |-> "boolean", k |-> "", n |-> IF b THEN 1 ELSE 0, s |-> ""]
Undefined == [t |-> "undefined", k |-> "", n |-> 0, s |-> ""]

isNaN(v)    == v.k = "nan"
isFinite(v) == v.k = "fin"

\* the strings the point object is exercised with
Strings == {"2", "-1x", "abc", "Infinity"}

\* parseFloat: the longest numeric prefix, NaN when there is none
parseFloat(txt) ==
    CASE txt = "2"        -> Num(2)
      [] txt = "-1x"      -> Num(0 - 1)
      [] txt = "Infinity" -> Inf(1)
      [] OTHER            -> NaN

\* ToNumber, the conversion the operator * applies to an operand: the whole string has to be
\* numeric, true is 1 and false is 0
ToNumber(v) ==
    CASE v.t = "number"  -> v
      [] v.t = "boolean" -> Num(v.n)
      [] v.t = "string"  -> IF v.s = "-1x" THEN NaN ELSE parseFloat(v.s)
      [] OTHER           -> NaN

\* a * b on numbers
mul(a, b) ==
    IF isNaN(a) \/ isNaN(b) THEN NaN
    ELSE IF a.k = "inf" \/ b.k = "inf"
         THEN IF a.n = 0 \/ b.n = 0 THEN NaN
              ELSE Inf(IF (a.n > 0) = (b.n > 0) THEN 1 ELSE 0 - 1)
         ELSE Num(a.n * b.n)

\* -a
neg(a) == IF isFinite(a) THEN Num(0 - a.n) ELSE IF isNaN(a) THEN NaN ELSE Inf(0 - a.n)

\* a < b on numbers (false when either is NaN)
less(a, b) ==
    /\ ~isNaN(a) /\ ~isNaN(b)
    /\ IF a.k = "inf" THEN a.n < 0 /\ ~(b.k = "inf" /\ b.n < 0)
       ELSE IF b.k = "inf" THEN b.n > 0
       ELSE a.n < b.n

\* Math.max(a, b) and Math.min(a, b), neither operand NaN
max(a, b) == IF less(a, b) THEN b ELSE a
min(a, b) == IF less(b, a) THEN b ELSE a

\* a + b on numbers
add(a, b) ==
    IF isNaN(a) \/ isNaN(b) THEN NaN
    ELSE IF a.k = "inf" /\ b.k = "inf" THEN (IF a.n = b.n THEN a ELSE NaN)
    ELSE IF a.k = "inf" THEN a
    ELSE IF b.k = "inf" THEN b
    ELSE Num(a.n + b.n)

\* the class of the number a / b: "nan", "inf" or "fin"
divClass(a, b) ==
    IF isNaN(a) \/ isNaN(b) THEN "nan"
    ELSE IF a.k = "inf" THEN (IF b.k = "inf" THEN "nan" ELSE "inf")
    ELSE IF b.k = "inf" THEN "fin"
    ELSE IF b.n = 0 THEN (IF a.n = 0 THEN "nan" ELSE "inf")
    ELSE "fin"

\* the class of Math.sqrt(a), with a itself standing for its root when it has one
sqrt(a) == IF isNaN(a) \/ a.n < 0 THEN NaN ELSE a

(***************************************************************************)
(* TSMT$CircleChordParams.  Lengths are counted in twentieths, so that the *)
(* fallback radius 0.05 is Num(1).  theta and theta - sin(theta) are 0     *)
(* when d = r and positive otherwise (Num(1) stands for the positive       *)
(* value); the result gives the class of each property: "fin", "inf" or    *)
(* "nan".                                                                  *)
(***************************************************************************)
twentieths(v) == IF isFinite(v) THEN Num(20 * v.n) ELSE v

\* lines 78-92
CircleChordParams(radius, dist) ==
    LET r     == IF isNaN(radius) \/ less(radius, Num(0)) THEN Num(1) ELSE twentieths(radius)
        d0    == IF isNaN(dist) THEN Num(0) ELSE twentieths(dist)
        d     == min(r, max(Num(0), d0))
        h     == add(r, neg(d))
        theta == IF divClass(d, r) = "nan" THEN NaN ELSE IF d = r THEN Num(0) ELSE Num(1)
        len   == sqrt(mul(h, add(mul(Num(2), r), neg(h))))
        area  == mul(mul(r, r), theta)
    IN  [l |-> len.k, theta |-> theta.k, area |-> area.k]

(***************************************************************************)
(* TSMT$TriangleCircumcircle.  The result is [path, num, rad, class]: the  *)
(* return taken ("early" or "formula"), the numerator a*b*c, the radicand  *)
(* of the denominator, and the class of the returned number.               *)
(***************************************************************************)
\* lines 178-189: _b and _c are computed from a, as _a is (lines 181, 182)
TriangleCircumcircle(a, b, c) ==
    LET _a  == IF isNaN(a) \/ less(a, Num(0)) THEN Num(0) ELSE a
        _b  == IF isNaN(a) \/ less(a, Num(0)) THEN Num(0) ELSE a
        _c  == IF isNaN(a) \/ less(a, Num(0)) THEN Num(0) ELSE a
        num == mul(mul(a, b), c)
        rad == mul(mul(mul(add(add(a, b), c), add(add(b, c), neg(a))), add(add(c, a), neg(b))),
                   add(add(a, b), neg(c)))
    IN  IF _a = Num(0) /\ _b = Num(0) /\ _c = Num(0)
        THEN [path |-> "early", num |-> Num(0), rad |-> Num(1), class |-> "fin"]
        ELSE [path |-> "formula", num |-> num, rad |-> rad, class |-> divClass(num, sqrt(rad))]

(***************************************************************************)
(* Circle geometry in exact arithmetic.  Centres and points passed in are  *)
(* integers.  A radius is a signed square root, [sgn, sq] = sgn * sqrt(sq) *)
(* with sgn in {-1, 0, 1}: an integer r is root(r), a distance between two *)
(* integer points is rootOf(dx*dx + dy*dy).  A computed point is           *)
(* [xa, xb, ya, yb, e, den] = ((xa + xb*sqrt(e)) / den,                    *)
(*                             (ya + yb*sqrt(e)) / den).                   *)
(***************************************************************************)
sign(i) == IF i > 0 THEN 1 ELSE IF i < 0 THEN 0 - 1 ELSE 0

root(r)   == [sgn |-> sign(r), sq |-> r * r]
rootOf(n) == [sgn |-> sign(n), sq |-> n]

\* the sign of m - sqrt(n), n >= 0
cmpRoot(m, n) == IF m < 0 THEN 0 - 1 ELSE sign(m * m - n)

\* the sign of sqrt(D) - (sqrt(A) + sqrt(B))
cmpSum(D, A, B) == cmpRoot(D - A - B, 4 * A * B)

\* the sign of d - (r0 + r1) for d = sqrt(D)
cmpRadiusSum(D, r0, r1) ==
    CASE r0.sgn >= 0 /\ r1.sgn >= 0 -> cmpSum(D, r0.sq, r1.sq)
      [] r0.sgn >= 0 /\ r1.sgn < 0  -> 0 - cmpSum(r0.sq, D, r1.sq)
      [] r0.sgn < 0 /\ r1.sgn >= 0  -> 0 - cmpSum(r1.sq, D, r0.sq)
      [] OTHER                      -> 1

\* the sign of d - Math.abs(r0 - r1) for d = sqrt(D)
cmpRadiusDiff(D, r0, r1) ==
    IF r0.sgn * r1.sgn >= 0
    THEN 0 - cmpRoot(r0.sq + r1.sq - D, 4 * r0.sq * r1.sq)    \* |sqrt(A) - sqrt(B)|
    ELSE cmpSum(D, r0.sq, r1.sq)                              \* sqrt(A) + sqrt(B)

\* variant of TSMT$CircleToCircleIntersection: the second point is pushed in every case
CircleToCircleIntersectionBoth(x0, y0, r0, x1, y1, r1) ==
    LET dx == x1 - x0
        dy == y1 - y0
        D  == dx * dx + dy * dy
        K  == r0.sq - r1.sq + D
        E  == 4 * D * r0.sq - K * K
        P3 == [xa |-> 2 * D * x0 + K * dx, xb |-> dy, ya |-> 2 * D * y0 + K * dy, yb |-> 0 - dx,
               e |-> E, den |-> 2 * D]
        P4 == [xa |-> 2 * D * x0 + K * dx, xb |-> 0 - dy, ya |-> 2 * D * y0 + K * dy, yb |-> dx,
               e |-> E, den |-> 2 * D]
    IN  IF cmpRadiusSum(D, r0, r1) > 0 \/ cmpRadiusDiff(D, r0, r1) < 0 THEN <<>>
        ELSE IF D = 0 /\ r0 = r1 THEN <<>>
        ELSE <<P3, P4>>

\* variant of TSMT$CircleToCircleIntersection: the offset h is applied along the line of
\* centres instead of across it
CircleToCircleIntersectionAlong(x0, y0, r0, x1, y1, r1) ==
    LET dx == x1 - x0
        dy == y1 - y0
        D  == dx * dx + dy * dy
        K  == r0.sq - r1.sq + D
        E  == 4 * D * r0.sq - K * K
        P3 == [xa |-> 2 * D * x0 + K * dx, xb |-> dx, ya |-> 2 * D * y0 + K * dy, yb |-> dy,
               e |-> E, den |-> 2 * D]
        P4 == [xa |-> 2 * D * x0 + K * dx, xb |-> 0 - dx, ya |-> 2 * D * y0 + K * dy, yb |-> 0 - dy,
               e |-> E, den |-> 2 * D]
    IN  IF cmpRadiusSum(D, r0, r1) > 0 \/ cmpRadiusDiff(D, r0, r1) < 0 THEN <<>>
        ELSE IF D = 0 /\ r0 = r1 THEN <<>>
        ELSE IF cmpRadiusSum(D, r0, r1) # 0 THEN <<P3, P4>> ELSE <<P3>>

\* lines 272-315.  With D = d*d and K = r0sq - r1*r1 + d*d:
\*   a = K / (2d), so a * (dx/d) = K*dx / (2D);
\*   h = sqrt(r0sq - a*a) = sqrt(E / (4D)) with E = 4*D*r0sq - K*K, so h * (dy/d) = dy*sqrt(E) / (2D);
\*   x3 = x0 + a*dx/d + h*dy/d,  y3 = y0 + a*dy/d - h*dx/d,  and x4, y4 with the signs of h swapped.
\* A negative E makes h NaN; the guards exclude it.  On integer inputs the tolerances 0.001 of
\* line 288 hold for equal values only, and d = 0 with r0 # r1 is rejected by line 284.
CircleToCircleIntersection(x0, y0, r0, x1, y1, r1) ==
    LET dx == x1 - x0
        dy == y1 - y0
        D  == dx * dx + dy * dy
        K  == r0.sq - r1.sq + D
        E  == 4 * D * r0.sq - K * K
        P3 == [xa |-> 2 * D * x0 + K * dx, xb |-> dy, ya |-> 2 * D * y0 + K * dy, yb |-> 0 - dx,
               e |-> E, den |-> 2 * D]
        P4 == [xa |-> 2 * D * x0 + K * dx, xb |-> 0 - dy, ya |-> 2 * D * y0 + K * dy, yb |-> dx,
               e |-> E, den |-> 2 * D]
    IN  IF cmpRadiusSum(D, r0, r1) > 0 \/ cmpRadiusDiff(D, r0, r1) < 0 THEN <<>>
        ELSE IF D = 0 /\ r0 = r1 THEN <<>>
        ELSE IF cmpRadiusSum(D, r0, r1) # 0 THEN <<P3, P4>> ELSE <<P3>>

\* lines 337-370: the centres are finite integers here, a radius is never NaN
CircleCircleIntersection(xc1, yc1, r1, xc2, yc2, r2) ==
    IF r1.sgn <= 0 THEN <<>>
    ELSE IF r2.sgn <= 0 THEN <<>>
    ELSE CircleToCircleIntersection(xc1, yc1, r1, xc2, yc2, r2)

\* lines 578-595: d is the distance from the centre to P, and it is the radius handed to the
\* intersection for the circle about P
CircleTangentsFromPoint(xc, yc, r, ppx, ppy) ==
    LET dx == ppx - xc
        dy == ppy - yc
        D  == dx * dx + dy * dy
    IN  IF (r >= 0 /\ D <= r * r) \/ r <= 0 THEN <<>>
        ELSE CircleCircleIntersection(xc, yc, root(r), ppx, ppy, rootOf(D))

(***************************************************************************)
(* Points on the line through two circle centres.  TSMT$CircleGaps calls   *)
(* TSMT$CircleSegmentIntersection with the segment from the outer centre   *)
(* (x1, y1) to the inner centre (x2, y2) and one of the two as the circle  *)
(* centre, so the projection parameter t is 0 or 1, E is the centre and    *)
(* d = 0.  With L = sqrt(normSq), the point of parameter t -+ dt,          *)
(* dt = r / L, lies at the signed distance t*L -+ r from (x1, y1) towards  *)
(* (x2, y2); it is held as [p, q] = p + q*L.  The distance of two such     *)
(* points is the absolute difference of their signed distances.            *)
(***************************************************************************)
\* the sign of p + q*sqrt(n), n >= 0
signSurd(p, q, n) ==
    IF q = 0 \/ n = 0 THEN sign(p)
    ELSE IF p = 0 THEN sign(q)
    ELSE IF sign(p) = sign(q) THEN sign(p)
    ELSE sign(p) * sign(p * p - q * q * n)

\* TSMT$Point.distance for two points of the line: |u - v|
distance(u, v, n) ==
    IF signSurd(u.p - v.p, u.q - v.q, n) < 0
    THEN [p |-> v.p - u.p, q |-> v.q - u.q]
    ELSE [p |-> u.p - v.p, q |-> u.q - v.q]

\* u < v for two numbers p + q*sqrt(n)
lessSurd(u, v, n) == signSurd(u.p - v.p, u.q - v.q, n) < 0

\* variant of TSMT$CircleSegmentIntersection: the two points are pushed in the other order
CircleSegmentIntersectionSwapped(x1, y1, x2, y2, xc, yc, r) ==
    LET dx     == x2 - x1
        dy     == y2 - y1
        normSq == dx * dx + dy * dy
        tn     == (xc - x1) * (x2 - x1) + (yc - y1) * (y2 - y1)
        cross  == (xc - x1) * dy - (yc - y1) * dx
        t      == tn \div normSq
    IN  IF normSq = 0 THEN <<>>
        ELSE IF r >= 0 /\ cross * cross = r * r * normSq THEN <<[p |-> 0, q |-> t]>>
        ELSE IF r > 0 /\ cross * cross < r * r * normSq
             THEN <<[p |-> r, q |-> t], [p |-> 0 - r, q |-> t]>>
        ELSE <<>>

\* lines 391-443.  normSq = 0 makes t, E and d NaN and both tests fail.  d*d is
\* cross*cross / normSq; on integer inputs with the centre on the line the tolerance 0.0001
\* of line 416 holds for d = r only.
CircleSegmentIntersection(x1, y1, x2, y2, xc, yc, r) ==
    LET dx     == x2 - x1
        dy     == y2 - y1
        normSq == dx * dx + dy * dy
        tn     == (xc - x1) * (x2 - x1) + (yc - y1) * (y2 - y1)
        cross  == (xc - x1) * dy - (yc - y1) * dx
        t      == tn \div normSq
    IN  IF normSq = 0 THEN <<>>
        ELSE IF r >= 0 /\ cross * cross = r * r * normSq THEN <<[p |-> 0, q |-> t]>>
        ELSE IF r > 0 /\ cross * cross < r * r * normSq
             THEN <<[p |-> 0 - r, q |-> t], [p |-> r, q |-> t]>>
        ELSE <<>>

\* the result null of TSMT$CircleGaps
Null == [isNull |-> TRUE]

\* lines 513-558: the four pairings, as a chain of updates of [min, minP, max, maxP]
gapsScan(outer1, outer2, inner1, inner2, n) ==
    LET s0 == [min |-> distance(outer1, inner1, n), minP |-> outer1,
               max |-> distance(outer1, inner1, n), maxP |-> outer1]
        s1 == IF lessSurd(distance(outer1, inner2, n), s0.min, n)
              THEN [min |-> distance(outer1, inner2, n), minP |-> outer1,
                    max |-> distance(outer2, inner2, n), maxP |-> outer2]
              ELSE s0
        s2 == IF lessSurd(distance(outer2, inner1, n), s1.min, n)
              THEN [min |-> distance(outer2, inner1, n), minP |-> outer2,
                    max |-> distance(inner2, outer1, n), maxP |-> outer1]
              ELSE s1
        s3 == IF lessSurd(distance(outer2, inner2, n), s2.min, n)
              THEN [min |-> distance(outer2, inner2, n), minP |-> outer2,
                    max |-> distance(inner1, outer1, n), maxP |-> outer1]
              ELSE s2
    IN  s3

\* lines 466-559.  The centre coordinates are numbers (NaN and Infinity included), the radii
\* integers.  min, max are distances and minP, maxP points of the line, all as p + q*L with
\* L the distance of the centres (n = L*L).
CircleGaps(a, b, r1, c, d, r2) ==
    IF isNaN(a) \/ ~isFinite(a) \/ isNaN(b) \/ ~isFinite(b) THEN Null
    ELSE IF isNaN(c) \/ ~isFinite(c) \/ isNaN(d) \/ ~isFinite(d) THEN Null
    ELSE IF r1 <= 0 \/ r2 <= 0 \/ r1 <= r2 THEN Null
    ELSE LET outerPoints == CircleSegmentIntersection(a.n, b.n, c.n, d.n, a.n, b.n, r1)
             innerPoints == CircleSegmentIntersection(a.n, b.n, c.n, d.n, c.n, d.n, r2)
             n           == (c.n - a.n) * (c.n - a.n) + (d.n - b.n) * (d.n - b.n)
             g           == gapsScan(outerPoints[1], outerPoints[2], innerPoints[1], innerPoints[2], n)
         IN  IF Len(outerPoints) = 0 THEN Null
             ELSE [isNull |-> FALSE, min |-> g.min, minP |-> g.minP, max |-> g.max, maxP |-> g.maxP]

(***************************************************************************)
(* Harness for the pure functions: a call is drawn, then evaluated.        *)
(***************************************************************************)
FnCoords == (0 - 1)..FnMax
FnRect   == 0..(FnMax - 1)
FnRadii  == (0 - 2)..FnMaxR

PointInCircleCalls ==
    {[fn |-> "PointInCircle", px |-> a, py |-> b, xc |-> c, yc |-> d, r |-> r] :
        a \in FnCoords, b \in FnCoords, c \in 1..2, d \in 1..2, r \in FnRadii}

getQuadrantCalls ==
    {[fn |-> "getQuadrant", px |-> a, py |-> b, left |-> l, top |-> t, right |-> r, bottom |-> bt] :
        a \in FnCoords, b \in FnCoords, l \in FnRect, t \in FnRect, r \in FnRect, bt \in FnRect}

\* two circles; the last call is the pair (0,0,5), (8,0,5)
CircleToCircleIntersectionCalls ==
    {[fn |-> "CircleToCircleIntersection", x0 |-> a, y0 |-> b, r0 |-> r, x1 |-> c, y1 |-> d, r1 |-> q] :
        a \in 0..1, b \in 0..1, r \in FnRadii, c \in FnCoords, d \in FnCoords, q \in FnRadii}
    \cup {[fn |-> "CircleToCircleIntersection", x0 |-> 0, y0 |-> 0, r0 |-> 5, x1 |-> 8, y1 |-> 0, r1 |-> 5]}

\* the numbers the functions that sanitise their arguments are called with
FnNumbers == {Num(i) : i \in (0 - 1)..FnMaxR} \cup {NaN, Inf(1)}

CircleChordParamsCalls ==
    {[fn |-> "CircleChordParams", radius |-> r, dist |-> d] : r \in FnNumbers, d \in FnNumbers}

TriangleCircumcircleCalls ==
    {[fn |-> "TriangleCircumcircle", a |-> a, b |-> b, c |-> c] :
        a \in FnNumbers, b \in FnNumbers, c \in FnNumbers}

\* the outer centre at the origin, one row up, or with a NaN abscissa; the inner centre on the
\* grid or with an infinite coordinate
CircleGapsCalls ==
    {[fn |-> "CircleGaps", a |-> a, b |-> b, r1 |-> r, c |-> c, d |-> d, r2 |-> q] :
        a \in {Num(0), NaN}, b \in {Num(0), Num(1)}, r \in FnRadii,
        c \in {Num(i) : i \in FnCoords} \cup {Inf(1)}, d \in {Num(i) : i \in FnCoords} \cup {Inf(1)},
        q \in FnRadii}

CircleTangentsFromPointCalls ==
    {[fn |-> "CircleTangentsFromPoint", xc |-> a, yc |-> b, r |-> r, px |-> c, py |-> d] :
        a \in 0..1, b \in 0..1, r \in FnRadii, c \in FnCoords, d \in FnCoords}

InitFn ==
    /\ algorithm = 0
    /\ width = 0
    /\ height = 0
    /\ circleRefs = <<>>
    /\ quad = EmptyQuad
    /\ px = 0
    /\ py = 0
    /\ curQuad = 0
    /\ prevQuad = -1
    /\ check = <<>>
    /\ checkSet = FALSE
    /\ identified = <<>>
    /\ identifiedDO = <<>>
    /\ emitted = <<>>
    /\ tested = <<>>
    /\ reassigned = FALSE
    /\ dirty = FALSE
    /\ last = "init"
    /\ \/ call \in PointInCircleCalls
       \/ call \in getQuadrantCalls
       \/ call \in CircleToCircleIntersectionCalls
       \/ call \in CircleChordParamsCalls
       \/ call \in TriangleCircumcircleCalls
       \/ call \in CircleGapsCalls
       \/ call \in CircleTangentsFromPointCalls
    /\ ret = <<>>
    /\ pt = <<>>
    /\ app = <<>>

EvalPointInCircle ==
    /\ ret = <<>>
    /\ call.fn = "PointInCircle"
    /\ ret' = <<PointInCircle(call.px, call.py, call.xc, call.yc, call.r)>>
    /\ UNCHANGED <<simVars, call, pt, app>>

EvalGetQuadrant ==
    /\ ret = <<>>
    /\ call.fn = "getQuadrant"
    /\ ret' = <<getQuadrant(call.px, call.py, call.left, call.top, call.right, call.bottom)>>
    /\ UNCHANGED <<simVars, call, pt, app>>

EvalCircleToCircleIntersection ==
    /\ ret = <<>>
    /\ call.fn = "CircleToCircleIntersection"
    /\ ret' = <<CircleToCircleIntersection(call.x0, call.y0, root(call.r0), call.x1, call.y1, root(call.r1))>>
    /\ UNCHANGED <<simVars, call, pt, app>>

EvalCircleChordParams ==
    /\ ret = <<>>
    /\ call.fn = "CircleChordParams"
    /\ ret' = <<CircleChordParams(call.radius, call.dist)>>
    /\ UNCHANGED <<simVars, call, pt, app>>

EvalTriangleCircumcircle ==
    /\ ret = <<>>
    /\ call.fn = "TriangleCircumcircle"
    /\ ret' = <<TriangleCircumcircle(call.a, call.b, call.c)>>
    /\ UNCHANGED <<simVars, call, pt, app>>

EvalCircleGaps ==
    /\ ret = <<>>
    /\ call.fn = "CircleGaps"
    /\ ret' = <<CircleGaps(call.a, call.b, call.r1, call.c, call.d, call.r2)>>
    /\ UNCHANGED <<simVars, call, pt, app>>

EvalCircleTangentsFromPoint ==
    /\ ret = <<>>
    /\ call.fn = "CircleTangentsFromPoint"
    /\ ret' = <<CircleTangentsFromPoint(call.xc, call.yc, call.r, call.px, call.py)>>
    /\ UNCHANGED <<simVars, call, pt, app>>

NextFn ==
    \/ EvalPointInCircle
    \/ EvalGetQuadrant
    \/ EvalCircleToCircleIntersection
    \/ EvalCircleChordParams
    \/ EvalTriangleCircumcircle
    \/ EvalCircleGaps
    \/ EvalCircleTangentsFromPoint

SpecFn == InitFn /\ [][NextFn]_vars

(***************************************************************************)
(* TSMT$Point.  The object is [x, y, invalidated, norm].  The norm is the  *)
(* square root of a sum of squares; it is represented by its radicand,     *)
(* norm = Math.sqrt(s) is held as s (sqrt is one-to-one on the values a    *)
(* sum of squares takes, NaN and Infinity included).                       *)
(***************************************************************************)
PtMax == 2      \* numeric inputs of the point object range over -PtMax..PtMax

\* lines 68-84
__assign(value) ==
    CASE value.t = "number"  -> IF ~isNaN(value) /\ isFinite(value) THEN value ELSE Num(0)
      [] value.t = "string"  -> LET t == parseFloat(value.s) IN IF ~isNaN(t) THEN t ELSE Num(0)
      [] value.t = "boolean" -> IF value.n = 1 THEN Num(0) ELSE Num(1)
      [] OTHER               -> value

\* lines 108-117: the object after length(); the value returned is its norm
length(p) ==
    IF p.invalidated
    THEN [p EXCEPT !.norm = add(mul(ToNumber(p.x), ToNumber(p.x)), mul(ToNumber(p.y), ToNumber(p.y))),
                   !.invalidated = FALSE]
    ELSE p

\* lines 32-38
newPoint(x, y) == length([x |-> x, y |-> y, invalidated |-> TRUE, norm |-> Undefined])

\* variant of set_x: the flag is left alone
set_xKeep(p, value) == [p EXCEPT !.x = __assign(value)]

\* lines 61-65
set_x(p, value) == [p EXCEPT !.x = __assign(value), !.invalidated = TRUE]

\* lines 99-103
set_y(p, value) == [p EXCEPT !.y = __assign(value), !.invalidated = TRUE]

PtNumbers == {Num(i) : i \in (0 - PtMax)..PtMax} \cup {NaN, Inf(1), Inf(0 - 1)}

JsValues == PtNumbers \cup {Str(txt) : txt \in Strings} \cup {Bool(TRUE), Bool(FALSE)}

\* A point is constructed, then its coordinates are assigned and its length is read in any
\* order.  call is the last operation: "new" with the arguments a and b, "set x" or "set y"
\* with the value a, "length" with a the norm the object held before the call.  ret is the
\* value the last length() returned.
InitPoint ==
    /\ algorithm = 3
    /\ width = 0
    /\ height = 0
    /\ circleRefs = <<>>
    /\ quad = EmptyQuad
    /\ px = 0
    /\ py = 0
    /\ curQuad = 0
    /\ prevQuad = 0 - 1
    /\ check = <<>>
    /\ checkSet = FALSE
    /\ identified = <<>>
    /\ identifiedDO = <<>>
    /\ emitted = <<>>
    /\ tested = <<>>
    /\ reassigned = FALSE
    /\ dirty = FALSE
    /\ last = "new"
    /\ \E x \in JsValues, y \in JsValues :
         /\ call = [fn |-> "new", a |-> x, b |-> y]
         /\ pt = newPoint(x, y)
    /\ ret = <<pt.norm>>
    /\ app = <<>>

PointSetX ==
    /\ algorithm = 3
    /\ \E value \in JsValues :
         /\ pt' = set_x(pt, value)
         /\ call' = [fn |-> "set x", a |-> value, b |-> value]
    /\ last' = "set x"
    /\ UNCHANGED <<algorithm, width, height, circleRefs, quad, px, py, curQuad, prevQuad,
                   check, checkSet, identified, identifiedDO, emitted, tested, reassigned,
                   dirty, ret, app>>

PointSetY ==
    /\ algorithm = 3
    /\ \E value \in JsValues :
         /\ pt' = set_y(pt, value)
         /\ call' = [fn |-> "set y", a |-> value, b |-> value]
    /\ last' = "set y"
    /\ UNCHANGED <<algorithm, width, height, circleRefs, quad, px, py, curQuad, prevQuad,
                   check, checkSet, identified, identifiedDO, emitted, tested, reassigned,
                   dirty, ret, app>>

PointLength ==
    /\ algorithm = 3
    /\ pt' = length(pt)
    /\ ret' = <<pt'.norm>>
    /\ call' = [fn |-> "length", a |-> pt.norm, b |-> pt.norm]
    /\ last' = "length"
    /\ UNCHANGED <<algorithm, width, height, circleRefs, quad, px, py, curQuad, prevQuad,
                   check, checkSet, identified, identifiedDO, emitted, tested, reassigned,
                   dirty, app>>

NextPoint == PointSetX \/ PointSetY \/ PointLength

SpecPoint == InitPoint /\ [][NextPoint]_vars

(***************************************************************************)
(* AppComponent: the lazy load of the strategy component and the timer     *)
(* that drives it.  app holds the component's fields, the state of the     *)
(* destroy$ subject and of the timer subscription, and what the latest     *)
(* timer callback did.  The simulation length is scaled down.              *)
(***************************************************************************)
_duration == 3

\* timer emissions are followed up to TickMargin past _duration
TickMargin == 2

\* values the ALGORITHM_ID token may be given
AlgorithmIds == 0..3

RenderTargetEnum == [CANVAS |-> "Canvas", SVG |-> "SVG", NONE |-> "None"]

\* variant of loadComponent: every id other than 2 loads the canvas component
loadComponentDefault(id, instance, render) ==
    IF id = 2
    THEN [ComponentInstance |-> "Pic2Component", created |-> 1, render |-> RenderTargetEnum.SVG]
    ELSE [ComponentInstance |-> "Pic1Component", created |-> 1, render |-> RenderTargetEnum.CANVAS]

\* __loadComponent: the switch on the algorithm id has no default branch
loadComponent(id, instance, render) ==
    CASE id = 1 -> [ComponentInstance |-> "Pic1Component", created |-> 1,
                    render |-> RenderTargetEnum.CANVAS]
      [] id = 2 -> [ComponentInstance |-> "Pic2Component", created |-> 1,
                    render |-> RenderTargetEnum.SVG]
      [] OTHER  -> [ComponentInstance |-> instance, created |-> 0, render |-> render]

\* the directive each component delegates next() to
strategyOf(component) ==
    CASE component = "Pic1Component" -> "PicCanvasDirective"
      [] component = "Pic2Component" -> "PicSvgDirective"
      [] OTHER                       -> "none"

\* takeUntil(destroy$): an emission of destroy$ ends a running subscription; next() on a
\* subject that has completed emits nothing
takeUntil(timer, completed) == IF timer = "running" /\ ~completed THEN "stopped" ELSE timer

\* the constructor, with ngOnInit having called __initSimulation up to its await
InitApp ==
    /\ algorithm = 4
    /\ width = 0
    /\ height = 0
    /\ circleRefs = <<>>
    /\ quad = EmptyQuad
    /\ px = 0
    /\ py = 0
    /\ curQuad = 0
    /\ prevQuad = 0 - 1
    /\ check = <<>>
    /\ checkSet = FALSE
    /\ identified = <<>>
    /\ identifiedDO = <<>>
    /\ emitted = <<>>
    /\ tested = <<>>
    /\ reassigned = FALSE
    /\ dirty = FALSE
    /\ last = "new"
    /\ call = <<>>
    /\ ret = <<>>
    /\ pt = <<>>
    /\ \E id \in AlgorithmIds :
         app = [algorithm |-> id, pc |-> "loading", render |-> RenderTargetEnum.CANVAS,
                ComponentInstance |-> "null", created |-> 0, _currentStep |-> 0,
                intersections |-> 0, timer |-> "none", completed |-> FALSE,
                destroyed |-> FALSE, calls |-> <<>>,
                step |-> [previousValue |-> 0, currentValue |-> 0, firstChange |-> FALSE],
                nextCalls |-> 0, nextAfterDestroy |-> FALSE]

\* the import resolves: __loadComponent finishes and __initSimulation runs to its end
AppLoaded ==
    /\ algorithm = 4
    /\ app.pc = "loading"
    /\ LET c == loadComponent(app.algorithm, app.ComponentInstance, app.render)
       IN  app' = [app EXCEPT !.pc = "loaded",
                              !.ComponentInstance = c.ComponentInstance,
                              !.created = @ + c.created,
                              !.render = c.render,
                              !.timer = IF c.ComponentInstance # "null" THEN "running" ELSE @]
    /\ UNCHANGED <<simVars, call, ret, pt>>

\* one emission of the timer: the map callback, then the subscriber unless takeUntil ended
\* the subscription; next() emits on intersect$ once per circle hit
AppTick ==
    /\ algorithm = 4
    /\ app.timer = "running"
    /\ app._currentStep < _duration + TickMargin
    /\ LET k     == app._currentStep + 1
           over  == k > _duration
           timer == IF over THEN takeUntil(app.timer, app.completed) ELSE app.timer
       IN  IF timer = "running"
           THEN \E h \in 0..NUM_CIRCLES :
                  app' = [app EXCEPT !._currentStep = k,
                                     !.calls = <<"ngOnChanges", "next">>,
                                     !.step = [previousValue |-> k - 1, currentValue |-> k,
                                               firstChange |-> (k = 1)],
                                     !.nextCalls = @ + 1,
                                     !.intersections = @ + h,
                                     !.nextAfterDestroy = (@ \/ app.destroyed)]
           ELSE app' = [app EXCEPT !._currentStep = k,
                                   !.completed = TRUE,
                                   !.timer = timer,
                                   !.calls = <<>>]
    /\ UNCHANGED <<simVars, call, ret, pt>>

\* ngOnDestroy: destroy$.next(), destroy$.complete()
AppDestroy ==
    /\ algorithm = 4
    /\ ~app.destroyed
    /\ app' = [app EXCEPT !.destroyed = TRUE,
                          !.completed = TRUE,
                          !.timer = takeUntil(@, app.completed)]
    /\ UNCHANGED <<simVars, call, ret, pt>>

NextApp == AppLoaded \/ AppTick \/ AppDestroy

SpecApp == InitApp /\ [][NextApp]_vars

(***************************************************************************)
(* Properties                                                              *)
(***************************************************************************)
Range(f) == {f[k] : k \in DOMAIN f}

\* the ids a scan of all circles reports for the current point
fullScan == SelectSeq(allIds, LAMBDA id : hit(px, py, circleRefs, toNumber(id)))

\* the ids an engine reports that reads the bucket of the point's quadrant in every step
rereadScan ==
    LET q == getQuadrant(px, py, 0, 0, width, height)
    IN  IF q \in 1..4
        THEN SelectSeq(keys(quad[q]), LAMBDA id : hit(px, py, circleRefs, toNumber(id)))
        ELSE <<>>

\* the current point lies exactly on the boundary of circle i
onBoundary(i) ==
    LET dx == px - circleRefs[i].x
        dy == py - circleRefs[i].y
    IN  dx * dx + dy * dy = circleRefs[i].radius * circleRefs[i].radius

\* v lies between a and b, ends included, whichever of a, b is the larger
between(v, a, b) == (a <= v /\ v <= b) \/ (b <= v /\ v <= a)

\* the quadrants whose closed sub-rectangle of the region of a getQuadrant call holds the point
\* (doubled coordinates; the half adjacent to top is 1 and 4, the right half is 1 and 2)
quadrantsOf(c) ==
    LET right  == between(2 * c.px, c.left + c.right, 2 * c.right)
        left   == between(2 * c.px, 2 * c.left, c.left + c.right)
        upper  == between(2 * c.py, 2 * c.top, c.top + c.bottom)
        lower  == between(2 * c.py, c.top + c.bottom, 2 * c.bottom)
    IN  {q \in 1..4 : \/ q = 1 /\ right /\ upper
                      \/ q = 2 /\ right /\ lower
                      \/ q = 3 /\ left /\ lower
                      \/ q = 4 /\ left /\ upper}

\* the bounding square of circle c overlaps the closed sub-rectangle of quadrant q of the
\* container (doubled coordinates, top = 0 and left = 0)
overlaps(c, q) ==
    LET xlo == IF q \in {1, 2} THEN width ELSE 0
        xhi == IF q \in {1, 2} THEN 2 * width ELSE width
        ylo == IF q \in {2, 3} THEN height ELSE 0
        yhi == IF q \in {2, 3} THEN 2 * height ELSE height
    IN  /\ 2 * (c.x - c.radius) <= xhi /\ 2 * (c.x + c.radius) >= xlo
        /\ 2 * (c.y - c.radius) <= yhi /\ 2 * (c.y + c.radius) >= ylo

canvasStepped == algorithm = 1 /\ last = "next"

\* C1: after a canvas step with the point in quadrant 1..4, the reported ids are exactly the
\* ids a scan of all circles reports, and every circle that contains the point is in the
\* bucket of the point's quadrant.
C1_NoFalseNegatives ==
    (canvasStepped /\ curQuad \in 1..4) =>
        /\ Range(identified) = Range(fullScan)
        /\ \A i \in Indices : hit(px, py, circleRefs, i) => toString(i) \in quad[curQuad]

\* a step reported a hit for a point on the horizontal dividing line while some circle was
\* not a candidate
C1_Witness ==
    /\ canvasStepped /\ curQuad \in 1..4
    /\ 2 * py = height
    /\ identified # <<>>
    /\ Len(tested) < NUM_CIRCLES

C4_QuadrantNumbering ==
    (ret # <<>> /\ call.fn = "getQuadrant" /\ call.left <= call.right) =>
        /\ \A q \in quadrantsOf(call) :
              (\A k \in quadrantsOf(call) : q <= k) => ret[1] = q
        /\ (2 * call.px = call.left + call.right /\ 2 * call.py = call.top + call.bottom)
              => ret[1] = 1

\* a point on the horizontal dividing line, left half, of a region with top > bottom: it is
\* in quadrants 3 and 4 and gets 3
C4_Witness ==
    /\ call.fn = "getQuadrant" /\ ret # <<>> /\ ret[1] = 3
    /\ call.top > call.bottom /\ call.left < call.right
    /\ quadrantsOf(call) = {3, 4}

\* C5: getQuadrant returns a value in 0..4, and for left <= right it returns 0 exactly when
\* the point is outside the closed rectangle.
C5_ZeroIffOutside ==
    (ret # <<>> /\ call.fn = "getQuadrant") =>
        /\ ret[1] \in 0..4
        /\ call.left <= call.right =>
              (ret[1] = 0 <=> ~(/\ call.left <= call.px /\ call.px <= call.right
                                /\ between(call.py, call.top, call.bottom)))

\* a point on the right edge of a proper rectangle is classified, one beyond it is not
C5_Witness ==
    /\ ret # <<>> /\ call.fn = "getQuadrant" /\ call.left < call.right /\ call.top # call.bottom
    /\ \/ ret[1] # 0 /\ call.px = call.right
       \/ ret[1] = 0 /\ call.px = call.right + 1 /\ between(call.py, call.top, call.bottom)

\* C6: a canvas step whose quadrant is 0 tests no circle, records nothing and emits nothing.
C6_QuadrantZeroSkips ==
    (canvasStepped /\ curQuad = 0) =>
        tested = <<>> /\ identified = <<>> /\ emitted = <<>>

\* a step ended outside the container while a non-empty candidate list was cached
C6_Witness == canvasStepped /\ curQuad = 0 /\ checkSet /\ check # <<>>

\* C7: a canvas step assigns _check iff its quadrant is in 1..4 and differs from _prevQuad;
\* then _prevQuad becomes the quadrant and _check the keys of its bucket; otherwise both
\* keep their values.
C7_RefreshOnChange ==
    [][(algorithm = 1 /\ last' = "next") =>
          LET q == getQuadrant(px', py', 0, 0, width, height)
          IN  /\ curQuad' = q
              /\ reassigned' <=> (q \in 1..4 /\ q # prevQuad)
              /\ reassigned' => (prevQuad' = q /\ check' = keys(quad'[q]))
              /\ ~reassigned' => (prevQuad' = prevQuad /\ check' = check)]_vars

\* a step moved the point from one quadrant into another and replaced a non-empty list
C7_Witness ==
    /\ canvasStepped /\ reassigned /\ prevQuad = 4
    /\ check # <<>> /\ Len(check) < NUM_CIRCLES

freshResult(x, y) ==
    LET q       == getQuadrant(x, y, 0, 0, width, height)
        refresh == quadInRange(q) /\ quadChanged(q, 0 - 1)
        chk     == IF refresh THEN keys(quad[q]) ELSE <<>>
    IN  SelectSeq(scanList(q, chk), LAMBDA id : hit(x, y, circleRefs, toNumber(id)))

\* C11: with the circles fixed, the ids a canvas step reports and emits for the point it
\* arrives at are the ids a newly constructed engine reports for that point: the result is a
\* function of the point alone, whatever steps came before.
C11_HistoryIndependent ==
    canvasStepped => /\ identified = freshResult(px, py)
                     /\ emitted = freshResult(px, py)

\* a step stayed in the quadrant an earlier step had recorded, reused the cached list, which
\* does not hold every circle, and reported a hit
C11_Witness ==
    /\ canvasStepped /\ curQuad \in 1..4 /\ prevQuad = curQuad
    /\ checkSet /\ ~reassigned
    /\ Len(check) < NUM_CIRCLES
    /\ Len(identified) > 0

\* the radicand of the norm of the coordinates the point holds
normOf(p) == add(mul(ToNumber(p.x), ToNumber(p.x)), mul(ToNumber(p.y), ToNumber(p.y)))

\* C12: the cached norm of a point is never stale: whenever the flag _invalidated is down,
\* _norm is the norm of the coordinates the point holds, and length() returns the norm of
\* the coordinates the point holds.
C12_NormNeverStale ==
    algorithm = 3 =>
        /\ ~pt.invalidated => pt.norm = normOf(pt)
        /\ last = "length" => ret = <<normOf(pt)>>

\* length() was called on a point whose cached norm was out of date and returned the
\* recomputed, finite norm
C12_Witness ==
    /\ algorithm = 3 /\ last = "length" /\ ~pt.invalidated
    /\ call.a # pt.norm
    /\ isFinite(pt.norm) /\ pt.norm.n > 0

\* v is a finite number
finiteNumber(v) == v.t = "number" /\ isFinite(v)

\* v is a non-finite or non-numeric input: NaN, an infinity, a boolean, or a string that does
\* not parse to a finite number
notNumeric(v) ==
    \/ v.t = "number" /\ ~isFinite(v)
    \/ v.t = "boolean"
    \/ v.t = "string" /\ ~isFinite(parseFloat(v.s))

\* C13: after a point is constructed or x or y is assigned, with any input, the stored
\* coordinates are finite numbers, and a non-finite or non-numeric input is stored as 0.
C13_StoredFiniteOrZero ==
    algorithm = 3 =>
        /\ finiteNumber(pt.x) /\ finiteNumber(pt.y)
        /\ (call.fn \in {"new", "set x"} /\ notNumeric(call.a)) => pt.x = Num(0)
        /\ (call.fn = "new" /\ notNumeric(call.b)) => pt.y = Num(0)
        /\ (call.fn = "set y" /\ notNumeric(call.a)) => pt.y = Num(0)

\* an integer s with s*s = n when there is one, else -1
isqrt(n) == IF \E s \in 0..n : s * s = n THEN CHOOSE s \in 0..n : s * s = n ELSE 0 - 1

\* m + q*sqrt(e) = 0
surdZero(m, q, e) ==
    IF q = 0 THEN m = 0
    ELSE IF e < 0 THEN FALSE
    ELSE isqrt(e) >= 0 /\ m + q * isqrt(e) = 0

\* the squared distance of the computed point p from the integer point (cx, cy) is rsq
sqDistIs(p, cx, cy, rsq) ==
    LET ax == p.xa - cx * p.den
        ay == p.ya - cy * p.den
    IN  /\ p.den # 0 /\ p.e >= 0
        /\ surdZero(ax * ax + ay * ay + (p.xb * p.xb + p.yb * p.yb) * p.e - rsq * p.den * p.den,
                    2 * (ax * p.xb + ay * p.yb), p.e)

\* the computed point p is the integer point (x, y)
pointIs(p, x, y) ==
    /\ p.den # 0
    /\ surdZero(p.xa - x * p.den, p.xb, p.e)
    /\ surdZero(p.ya - y * p.den, p.yb, p.e)

returned(f) == algorithm = 0 /\ call.fn = f /\ ret # <<>>

C15_PointsOnBothCircles ==
    (returned("CircleToCircleIntersection") /\ call.r0 > 0 /\ call.r1 > 0) =>
        /\ \A k \in 1..Len(ret[1]) :
              /\ sqDistIs(ret[1][k], call.x0, call.y0, call.r0 * call.r0)
              /\ sqDistIs(ret[1][k], call.x1, call.y1, call.r1 * call.r1)
        /\ call = [fn |-> "CircleToCircleIntersection", x0 |-> 0, y0 |-> 0, r0 |-> 5,
                   x1 |-> 8, y1 |-> 0, r1 |-> 5] =>
              /\ Len(ret[1]) = 2
              /\ pointIs(ret[1][1], 4, 0 - 3)
              /\ pointIs(ret[1][2], 4, 3)

\* the circles (0,0,5) and (8,0,5) were intersected
C15_Witness ==
    /\ returned("CircleToCircleIntersection")
    /\ call.x0 = 0 /\ call.y0 = 0 /\ call.r0 = 5
    /\ call.x1 = 8 /\ call.y1 = 0 /\ call.r1 = 5
    /\ Len(ret[1]) = 2

\* v is an invalid argument: NaN, negative or zero
invalidArg(v) == isNaN(v) \/ ~less(Num(0), v)

\* C16: no function of the geometry library yields NaN on invalid input: whenever some
\* argument is NaN, negative or zero, the value returned contains no NaN.
C16_NoNaNOnInvalidInput ==
    /\ (returned("CircleChordParams") /\ (invalidArg(call.radius) \/ invalidArg(call.dist))) =>
          /\ ret[1].l # "nan" /\ ret[1].theta # "nan" /\ ret[1].area # "nan"
    /\ (returned("TriangleCircumcircle")
            /\ (invalidArg(call.a) \/ invalidArg(call.b) \/ invalidArg(call.c))) =>
          ret[1].class # "nan"

\* the side of a Circumcircle call with NaN and negative values replaced by 0
sanitised(v) == IF isNaN(v) \/ less(v, Num(0)) THEN Num(0) ELSE v

\* C17: the circumcircle radius takes its early return 0 exactly when all three sides, each
\* sanitised on its own, are 0; with at least one positive side the formula is evaluated.
C17_EarlyReturnIffAllZero ==
    returned("TriangleCircumcircle") =>
        (ret[1].path = "early" <=>
            (sanitised(call.a) = Num(0) /\ sanitised(call.b) = Num(0) /\ sanitised(call.c) = Num(0)))

\* the centres of a CircleGaps call are finite
finiteCentres == isFinite(call.a) /\ isFinite(call.b) /\ isFinite(call.c) /\ isFinite(call.d)

\* the squared distance of the centres of a CircleGaps call with finite centres
gapsNormSq ==
    (call.c.n - call.a.n) * (call.c.n - call.a.n) + (call.d.n - call.b.n) * (call.d.n - call.b.n)

\* the inner circle of a CircleGaps call lies in the closed outer disc: L + r2 <= r1
innerContained == call.r1 >= call.r2 /\ gapsNormSq <= (call.r1 - call.r2) * (call.r1 - call.r2)

\* C18: CircleGaps returns null whenever r1 <= r2, a radius is <= 0, a centre coordinate is
\* NaN or non-finite, or any part of the inner circle lies outside the outer circle; a
\* non-null result is returned only for an inner circle contained in the outer circle.
C18_NullUnlessContained ==
    returned("CircleGaps") =>
        (~ret[1].isNull =>
            /\ finiteCentres
            /\ call.r1 > call.r2 /\ call.r1 > 0 /\ call.r2 > 0
            /\ innerContained)

\* the two numbers p + q*L are equal
sameSurd(u, v, n) == signSurd(u.p - v.p, u.q - v.q, n) = 0

tangentsDistSq ==
    (call.px - call.xc) * (call.px - call.xc) + (call.py - call.yc) * (call.py - call.yc)

\* C20: CircleTangentsFromPoint returns nothing when P is inside or on the circle or r <= 0;
\* for P strictly outside it returns exactly two points T of the circle, each a tangent
\* point: |PT|^2 = |PC|^2 - r^2.
C20_TangentPoints ==
    returned("CircleTangentsFromPoint") =>
        /\ (call.r <= 0 \/ tangentsDistSq <= call.r * call.r) => Len(ret[1]) = 0
        /\ (call.r > 0 /\ tangentsDistSq > call.r * call.r) =>
              /\ Len(ret[1]) = 2
              /\ \A k \in 1..Len(ret[1]) :
                    /\ sqDistIs(ret[1][k], call.xc, call.yc, call.r * call.r)
                    /\ sqDistIs(ret[1][k], call.px, call.py, tangentsDistSq - call.r * call.r)

\* C21: in the canvas simulation no step changes a circle or a bucket, and after any number
\* of steps the buckets are the ones initialisation builds from the circles.
C21_CirclesFixed ==
    /\ [](algorithm = 1 => quad = initQuad(0, circleRefs, width, height))
    /\ [][algorithm = 1 => (circleRefs' = circleRefs /\ quad' = quad)]_vars

\* a canvas step has run on circles that do not all lie in the same buckets
C21_Witness ==
    /\ canvasStepped
    /\ quad = initQuad(0, circleRefs, width, height)
    /\ \E q \in 1..4 : quad[q] # {} /\ quad[q] # Ids

\* C22: after an SVG step the identified list and the emitted ids are exactly the circles
\* that contain the point at the positions the circles have after the step, each id once,
\* in increasing index order, and every circle was tested.
C22_SvgFullScan ==
    (algorithm = 2 /\ last = "next") =>
        /\ emitted = identified
        /\ \A i \in Indices :
              (toString(i) \in Range(identified)) <=>
                  ((px - circleRefs[i].x) * (px - circleRefs[i].x)
                      + (py - circleRefs[i].y) * (py - circleRefs[i].y)
                          <= circleRefs[i].radius * circleRefs[i].radius)
        /\ \A j \in 1..Len(identified) : \A k \in 1..Len(identified) :
              j < k => toNumber(identified[j]) < toNumber(identified[k])
        /\ Len(tested) = NUM_CIRCLES /\ Range(tested) = Ids

\* an SVG step reported every circle, in index order
C22_Witness ==
    /\ algorithm = 2 /\ last = "next"
    /\ Len(identified) = NUM_CIRCLES
    /\ identified[1] = toString(0)

\* the point moved along one axis only, by a distance from LOW_RADIUS to HIGH_RADIUS
oneAxis ==
    \/ py' = py /\ (px' - px \in LOW_RADIUS..HIGH_RADIUS \/ px - px' \in LOW_RADIUS..HIGH_RADIUS)
    \/ px' = px /\ (py' - py \in LOW_RADIUS..HIGH_RADIUS \/ py - py' \in LOW_RADIUS..HIGH_RADIUS)

\* C23: in every step of either renderer the point moves along exactly one axis by an
\* integer distance between LOW_RADIUS and HIGH_RADIUS; the other coordinate keeps its value.
C23_OneAxisWalk == [][(algorithm \in {1, 2} /\ last' = "next") => oneAxis]_vars

\* C24: hits never accumulate: after a step of either renderer the two identified lists
\* have the same length and hold exactly the ids emitted in that step, each at most once;
\* both are empty after a canvas step into quadrant 0.
C24_NoAccumulation ==
    last = "next" =>
        /\ Len(identified) = Len(identifiedDO)
        /\ identified = emitted
        /\ identifiedDO = emitted
        /\ Cardinality(Range(emitted)) = Len(emitted)
        /\ (algorithm = 1 /\ curQuad = 0) => (identified = <<>> /\ identifiedDO = <<>>)

\* a canvas step that is not the first in its quadrant reported exactly one circle
C24_Witness ==
    /\ algorithm = 1 /\ last = "next"
    /\ curQuad \in 1..4 /\ ~reassigned
    /\ Len(identified) = 1
    /\ Len(identifiedDO) = 1

\* C28: the canvas cursor starts at curQuad = 0, prevQuad = -1; prevQuad is always -1 or a
\* quadrant 1..4; a step into quadrant 0 leaves prevQuad and the candidate list unchanged;
\* whenever prevQuad is not -1 the candidate list is the ids of bucket prevQuad; and the
\* candidate list is never iterated before it was assigned.
C28_QuadrantCursor ==
    /\ [](last = "init" => (curQuad = 0 /\ prevQuad = 0 - 1))
    /\ [](prevQuad \in {0 - 1, 1, 2, 3, 4})
    /\ [](prevQuad # 0 - 1 => (checkSet /\ check = keys(quad[prevQuad])))
    /\ []((canvasStepped /\ curQuad \in 1..4) => checkSet)
    /\ [][(algorithm = 1 /\ last' = "next" /\ curQuad' = 0)
              => (prevQuad' = prevQuad /\ check' = check)]_vars

\* the point stepped out of the container after a quadrant with circles had been recorded
C28_Witness ==
    /\ canvasStepped
    /\ curQuad = 0
    /\ prevQuad \in 1..4
    /\ check = keys(quad[prevQuad])
    /\ check # <<>>

\* C29: for radius 0 pointInCircle is true exactly when the point is the centre; for a
\* negative radius it is false for every point, also where dx^2 + dy^2 <= r^2 holds.
C29_DegenerateRadius ==
    returned("PointInCircle") =>
        /\ call.r = 0 => (ret[1] <=> (call.px = call.xc /\ call.py = call.yc))
        /\ call.r < 0 => ~ret[1]

\* a negative radius, a point within distance |r| of the centre, and the answer is false
C29_Witness ==
    /\ returned("PointInCircle")
    /\ call.r < 0
    /\ (call.px - call.xc) * (call.px - call.xc) + (call.py - call.yc) * (call.py - call.yc)
           <= call.r * call.r
    /\ ~ret[1]

\* the two points of an intersection result differ
distinctPoints(a, b) ==
    \/ ~surdZero(a.xa * b.den - b.xa * a.den, a.xb * b.den - b.xb * a.den, a.e)
    \/ ~surdZero(a.ya * b.den - b.ya * a.den, a.yb * b.den - b.yb * a.den, a.e)

\* C30: the points a circle-circle intersection returns are pairwise distinct, also for
\* internally tangent circles.
C30_DistinctPoints ==
    (returned("CircleToCircleIntersection") /\ call.r0 > 0 /\ call.r1 > 0) =>
        \A j \in 1..Len(ret[1]) : \A k \in 1..Len(ret[1]) :
            j < k => distinctPoints(ret[1][j], ret[1][k])

\* C25: the k-th timer tick, k = 1.._duration, calls ngOnChanges with step k and then
\* next(); on the tick where the counter first exceeds _duration destroy$ fires, next() is
\* not called on that tick and is never called again.
C25_TickSchedule ==
    (algorithm = 4 /\ app._currentStep > 0) =>
        IF app._currentStep <= _duration
        THEN /\ app.calls = <<"ngOnChanges", "next">>
             /\ app.step = [previousValue |-> app._currentStep - 1,
                            currentValue |-> app._currentStep,
                            firstChange |-> (app._currentStep = 1)]
             /\ app.nextCalls = app._currentStep
        ELSE /\ app.calls = <<>>
             /\ app.completed
             /\ app.timer = "stopped"
             /\ app.nextCalls = _duration

\* C26: once ngOnDestroy has run, next() is never invoked, whenever ngOnDestroy happens
\* relative to the lazy load, the timer subscription and the ticks.
C26_NoNextAfterDestroy == algorithm = 4 => ~app.nextAfterDestroy

\* C27: id 1 creates exactly one component, the canvas one, and render is 'Canvas'; id 2
\* creates exactly one, the SVG one, and render is 'SVG'; for any other id no component is
\* created, no timer starts, next() is never called and the intersection count stays 0.
C27_ComponentPerId ==
    (algorithm = 4 /\ app.pc = "loaded") =>
        /\ app.algorithm = 1 =>
              /\ app.created = 1
              /\ strategyOf(app.ComponentInstance) = "PicCanvasDirective"
              /\ app.render = "Canvas"
        /\ app.algorithm = 2 =>
              /\ app.created = 1
              /\ strategyOf(app.ComponentInstance) = "PicSvgDirective"
              /\ app.render = "SVG"
        /\ app.algorithm \notin {1, 2} =>
              /\ app.created = 0
              /\ app.ComponentInstance = "null"
              /\ app.timer = "none"
              /\ app.nextCalls = 0
              /\ app.intersections = 0

\* the load for an id that names no strategy has finished, and the application was destroyed
C27_Witness ==
    /\ algorithm = 4
    /\ app.pc = "loaded"
    /\ app.algorithm \notin {1, 2}
    /\ app.destroyed
    /\ app.created = 0

====
